---- MODULE Spec2Model ----
(***************************************************************************)
(* Model of the Taskbar Cat overlay (base.py): the direction classifier,   *)
(* the pose resolver with its fallback lists, the cooldown gate of the     *)
(* timer tick, and the position / size handlers that re-scale the images.  *)
(***************************************************************************)
EXTENDS Integers, Sequences, FiniteSets, TLC

VARIABLES
    phase,              \* "init" | "running" | "dialog" | "stopped"
    now,                \* QDateTime.currentMSecsSinceEpoch(), the wall clock
    cat_size,           \* self.cat_size (a square: width = height)
    x_offset,           \* self.x_offset
    y_offset,           \* self.y_offset
    geom,               \* self.label.geometry(): [x, y, w, h]
    pixmap,             \* the pixmap the label displays, or NoPixmap
    pose_images,        \* self.pose_images: insertion-ordered dict, a sequence of [name, size]
    current_pose,       \* self.current_pose
    last_change_time,   \* self.last_change_time
    dlg,                \* the open dialog's original_* locals, or NoDialog
    settings_file,      \* contents of taskbar_cat_settings.json, or NoFile
    testing,            \* "-testing" / "--testing" is in sys.argv
    tick                \* locals of the most recent update_orientation call

vars == <<phase, now, cat_size, x_offset, y_offset, geom, pixmap, pose_images,
          current_pose, last_change_time, dlg, settings_file, testing, tick>>

\* Python's None where a pose name is expected; no pose is named like this.
None == "<None>"

\* The label before any setPixmap call
NoPixmap == [name |-> None, size |-> 0]

\* No settings file on disk
NoFile == [exists |-> FALSE]

\* No dialog open: there are no original_* locals
NoDialog == [open |-> FALSE]

----------------------------------------------------------------------------
(* Program constants *)

H_STRONG_THRESHOLD == 100
H_WEAK_THRESHOLD == 60
V_THRESHOLD == 80
POSE_CHANGE_COOLDOWN_MS == 150
TIMER_INTERVAL_MS == 75

DEFAULT_SIZE == 150
DEFAULT_Y_OFFSET == 15
DEFAULT_X_OFFSET == -10

----------------------------------------------------------------------------
(* Direction classifier *)

\* A variant that puts the boundary value on the stronger side (< written as <=).
determine_direction_inclusive(dx, dy) ==
    LET h == IF dx <= -H_STRONG_THRESHOLD THEN <<"left", "far">>
             ELSE IF dx <= -H_WEAK_THRESHOLD THEN <<"left", "normal">>
             ELSE IF dx <= (-H_WEAK_THRESHOLD) \div 2 THEN <<"left", "slight">>
             ELSE IF dx >= H_STRONG_THRESHOLD THEN <<"right", "far">>
             ELSE IF dx >= H_WEAK_THRESHOLD THEN <<"right", "normal">>
             ELSE IF dx >= H_WEAK_THRESHOLD \div 2 THEN <<"right", "slight">>
             ELSE <<"forward", "normal">>
        v == IF dy <= -V_THRESHOLD THEN <<"up", "normal">>
             ELSE IF dy <= (-V_THRESHOLD) \div 2 THEN <<"up", "slight">>
             ELSE IF dy >= V_THRESHOLD THEN <<"down", "normal">>
             ELSE IF dy >= V_THRESHOLD \div 2 THEN <<"down", "slight">>
             ELSE <<"center", "normal">>
    IN  <<h[1], h[2], v[1], v[2]>>

\* determine_direction: <<h_dir, h_intensity, v_dir, v_intensity>>.
\* Python's // is floor division, as \div is; unary minus binds first.
determine_direction(dx, dy) ==
    LET h == IF dx < -H_STRONG_THRESHOLD THEN <<"left", "far">>
             ELSE IF dx < -H_WEAK_THRESHOLD THEN <<"left", "normal">>
             ELSE IF dx < (-H_WEAK_THRESHOLD) \div 2 THEN <<"left", "slight">>
             ELSE IF dx > H_STRONG_THRESHOLD THEN <<"right", "far">>
             ELSE IF dx > H_WEAK_THRESHOLD THEN <<"right", "normal">>
             ELSE IF dx > H_WEAK_THRESHOLD \div 2 THEN <<"right", "slight">>
             ELSE <<"forward", "normal">>
        v == IF dy < -V_THRESHOLD THEN <<"up", "normal">>
             ELSE IF dy < (-V_THRESHOLD) \div 2 THEN <<"up", "slight">>
             ELSE IF dy > V_THRESHOLD THEN <<"down", "normal">>
             ELSE IF dy > V_THRESHOLD \div 2 THEN <<"down", "slight">>
             ELSE <<"center", "normal">>
    IN  <<h[1], h[2], v[1], v[2]>>

----------------------------------------------------------------------------
(* Pose library: self.pose_images, a dict in insertion order *)

Keys(images) == {images[i].name : i \in DOMAIN images}

\* self.pose_images[name]
Image(images, name) ==
    LET i == CHOOSE j \in DOMAIN images : images[j].name = name
    IN  images[i]

\* QPixmap(path).scaled(size, ...): the pose's image at the given size
Scaled(name, size) == [name |-> name, size |-> size]

----------------------------------------------------------------------------
(* Pose resolver *)

\* A variant that lists the full side pose before the in-between pose.
slight_center_side_first(h_dir) ==
    <<h_dir, "forward_" \o h_dir, h_dir \o "_center", "forward">>

\* Slight left/right with no vertical part: the in-between pose comes first.
slight_center(h_dir) ==
    <<"forward_" \o h_dir, h_dir, h_dir \o "_center", "forward">>

\* The candidate list find_best_pose builds, most specific first.
candidates(h_dir, h_intensity, v_dir, v_intensity) ==
    IF h_dir = "forward" THEN
        IF v_dir = "center" THEN <<"forward">>
        ELSE IF v_intensity = "slight"
             THEN <<"forward_slight_" \o v_dir, "forward_" \o v_dir, "forward">>
             ELSE <<"forward_" \o v_dir, "forward_slight_" \o v_dir, "forward">>
    ELSE IF h_dir \in {"left", "right"} THEN
        IF h_intensity = "far" THEN
            IF v_dir = "center"
            THEN <<h_dir \o "_" \o h_dir, h_dir, h_dir \o "_center">>
            ELSE IF v_intensity = "slight"
                 THEN <<h_dir \o "_slight_" \o v_dir, h_dir \o "_" \o v_dir,
                        h_dir \o "_" \o h_dir, h_dir>>
                 ELSE <<h_dir \o "_" \o v_dir, h_dir \o "_slight_" \o v_dir,
                        h_dir \o "_" \o h_dir, h_dir>>
        ELSE IF h_intensity = "slight" THEN
            IF v_dir = "center"
            THEN slight_center(h_dir)
            ELSE LET forward_side == "forward_" \o h_dir IN
                 IF v_intensity = "slight"
                 THEN <<forward_side \o "_slight_" \o v_dir, forward_side \o "_" \o v_dir,
                        forward_side,
                        h_dir \o "_slight_" \o v_dir, h_dir \o "_" \o v_dir, h_dir,
                        "forward_slight_" \o v_dir, "forward_" \o v_dir, "forward">>
                 ELSE <<forward_side \o "_" \o v_dir, forward_side \o "_slight_" \o v_dir,
                        forward_side,
                        h_dir \o "_" \o v_dir, h_dir \o "_slight_" \o v_dir, h_dir,
                        "forward_" \o v_dir, "forward_slight_" \o v_dir, "forward">>
        ELSE
            IF v_dir = "center"
            THEN <<h_dir, h_dir \o "_center">>
            ELSE IF v_intensity = "slight"
                 THEN <<h_dir \o "_slight_" \o v_dir, h_dir \o "_" \o v_dir, h_dir>>
                 ELSE <<h_dir \o "_" \o v_dir, h_dir \o "_slight_" \o v_dir, h_dir>>
    ELSE <<>>

\* "for candidate in candidates: if candidate in self.pose_images: return candidate";
\* None when the loop falls through.
RECURSIVE first_present(_, _)
first_present(cands, images) ==
    IF cands = <<>> THEN None
    ELSE IF Head(cands) \in Keys(images) THEN Head(cands)
    ELSE first_present(Tail(cands), images)

\* A variant that takes the first key without looking for "forward".
fallback_first_key(images) ==
    IF Len(images) > 0 THEN images[1].name ELSE None

\* A variant that answers "forward" whether or not it is loaded.
fallback_always_forward(images) == "forward"

\* The final fallback: forward, else the first key, else None.
fallback_pose(images) ==
    IF "forward" \in Keys(images) THEN "forward"
    ELSE IF Len(images) > 0 THEN images[1].name
    ELSE None

\* A variant that passes over the pose on display when it probes the candidates.
find_best_pose_skipping_current(h_dir, h_intensity, v_dir, v_intensity, images) ==
    LET others == SelectSeq(candidates(h_dir, h_intensity, v_dir, v_intensity),
                            LAMBDA name : name # current_pose)
        hit == first_present(others, images)
    IN  IF hit # None THEN hit ELSE fallback_pose(images)

find_best_pose(h_dir, h_intensity, v_dir, v_intensity, images) ==
    LET hit == first_present(candidates(h_dir, h_intensity, v_dir, v_intensity), images)
    IN  IF hit # None THEN hit ELSE fallback_pose(images)

----------------------------------------------------------------------------
(* Bounds and inputs of the model *)

MaxDelta == 201         \* |dx|, |dy| drawn for the classifier
MaxLib == 2             \* keys of a library drawn for the resolver
StartTime == 1000       \* the clock when the process starts
Horizon == 302          \* the clock runs to StartTime + Horizon
MaxDrift == 1           \* ms that may pass between the two clock reads of one tick

CoarseHorizon == 150    \* the same, when the whole program runs

MaxTime == StartTime + Horizon
\* Clock steps between callbacks: fine for the engine alone, coarse for the whole program
TimeSteps == {25, 75, 76}
CoarseSteps == {TIMER_INTERVAL_MS}

\* app.primaryScreen().availableGeometry()
ScreenW == 1920
ScreenH == 1040

\* GetCursorPos results the ticks read
MousePoints == {<<1835, 954>>, <<1700, 954>>, <<1775, 860>>}
FewMousePoints == {<<1835, 954>>, <<1700, 954>>}

\* Values the dialog's spin boxes are set to
SizeChoices == {DEFAULT_SIZE, 200}
YChoices == {DEFAULT_Y_OFFSET, 40}
XChoices == {DEFAULT_X_OFFSET, 15}

File(name, ext, legacy) == [name |-> name, ext |-> ext, legacy |-> legacy]

\* os.listdir(images_dir): name is the file name without its extension and
\* without a leading "cat_", legacy says the file name starts with "cat_".
DirListings ==
    { <<>>,
      <<File("icon", ".ico", FALSE), File("left", ".png", FALSE),
        File("forward", ".png", TRUE), File("forward", ".png", FALSE)>>,
      <<File("sit", ".png", FALSE), File("left", ".png", FALSE)>>,
      <<File("", ".png", FALSE), File("left", ".png", FALSE)>> }

\* The listings the whole program is run with
FewListings == {l \in DirListings : \A i \in DOMAIN l : l[i].name # "sit"}

\* Settings files found at startup: none, or one with a size out of range
SettingsFiles ==
    { NoFile, [exists |-> TRUE, size |-> 600, y_offset |-> 40, x_offset |-> DEFAULT_X_OFFSET] }

----------------------------------------------------------------------------
(* Settings *)

SIZE_MIN == 50
SIZE_MAX == 500
Y_OFFSET_MIN == -200
Y_OFFSET_MAX == 200
X_OFFSET_MIN == -500
X_OFFSET_MAX == 500

load_settings(file) ==
    IF ~file.exists
    THEN [size |-> DEFAULT_SIZE, y_offset |-> DEFAULT_Y_OFFSET, x_offset |-> DEFAULT_X_OFFSET]
    ELSE [size |-> IF SIZE_MIN <= file.size /\ file.size <= SIZE_MAX
                   THEN file.size ELSE DEFAULT_SIZE,
          y_offset |-> IF Y_OFFSET_MIN <= file.y_offset /\ file.y_offset <= Y_OFFSET_MAX
                       THEN file.y_offset ELSE DEFAULT_Y_OFFSET,
          x_offset |-> IF X_OFFSET_MIN <= file.x_offset /\ file.x_offset <= X_OFFSET_MAX
                       THEN file.x_offset ELSE DEFAULT_X_OFFSET]

\* A variant that writes the file whatever the command line says.
save_settings_always(size, y, x, is_testing, file) ==
    [exists |-> TRUE, size |-> size, y_offset |-> y, x_offset |-> x]

\* save_settings: nothing is written in testing mode
save_settings(size, y, x, is_testing, file) ==
    IF is_testing THEN file
    ELSE [exists |-> TRUE, size |-> size, y_offset |-> y, x_offset |-> x]

----------------------------------------------------------------------------
(* Window geometry and anchor *)

\* label.resize(cat_size); label.move(x, y)
Geometry(size, xo, yo) ==
    [x |-> ScreenW - size + xo, y |-> ScreenH - size + yo, w |-> size, h |-> size]

\* int(w * 0.5) and int(h * 0.33) for the positive sizes of the model
get_cat_anchor_point(rect) ==
    <<rect.x + (rect.w * 50) \div 100, rect.y + (rect.h * 33) \div 100>>

----------------------------------------------------------------------------
(* Engine state and set_pose *)

Engine == [pixmap |-> pixmap, current_pose |-> current_pose,
           last_change_time |-> last_change_time]

\* A variant that swaps the image without recording when it did.
set_pose_no_stamp(pose_name, images, e, t) ==
    IF pose_name = e.current_pose THEN e
    ELSE IF pose_name \in Keys(images)
         THEN [pixmap |-> Image(images, pose_name), current_pose |-> pose_name,
               last_change_time |-> e.last_change_time]
         ELSE e

\* set_pose on engine state e; t is the clock it reads when it commits.
set_pose(pose_name, images, e, t) ==
    IF pose_name = e.current_pose THEN e
    ELSE IF pose_name \in Keys(images)
         THEN [pixmap |-> Image(images, pose_name), current_pose |-> pose_name,
               last_change_time |-> t]
         ELSE e

\* A variant whose gate opens only after more than the cooldown.
cooldown_elapsed_strict(current_time, last) ==
    current_time - last > POSE_CHANGE_COOLDOWN_MS

\* A variant with no gate at all.
cooldown_elapsed_always(current_time, last) == TRUE

\* time_since_last_change >= self.POSE_CHANGE_COOLDOWN_MS
cooldown_elapsed(current_time, last) ==
    current_time - last >= POSE_CHANGE_COOLDOWN_MS

\* Python truthiness of a pose name: None and "" are both false
Truthy(pose_name) == pose_name # None /\ pose_name # ""

----------------------------------------------------------------------------
(* Startup *)

\* The loop of load_images over os.listdir: .png files not starting with "cat_"
RECURSIVE loaded(_, _)
loaded(listing, size) ==
    IF listing = <<>> THEN <<>>
    ELSE LET f == Head(listing)
             rest == loaded(Tail(listing), size)
         IN  IF f.ext = ".png" /\ ~f.legacy
             THEN <<Scaled(f.name, size)>> \o rest
             ELSE rest

\* The state after __init__ has set its fields and setup_window has run.
InitFields(file, is_testing) ==
    LET settings == load_settings(file) IN
    /\ phase = "init"
    /\ now = StartTime
    /\ cat_size = settings.size
    /\ x_offset = settings.x_offset
    /\ y_offset = settings.y_offset
    /\ geom = Geometry(settings.size, settings.x_offset, settings.y_offset)
    /\ pixmap = NoPixmap
    /\ pose_images = <<>>
    /\ current_pose = None
    /\ last_change_time = 0
    /\ dlg = NoDialog
    /\ settings_file = file
    /\ testing = is_testing

IdleTick == [at |-> "idle"]

Init ==
    /\ \E file \in SettingsFiles, is_testing \in BOOLEAN : InitFields(file, is_testing)
    /\ tick = IdleTick

\* load_images, then setup_timer starts the timer
LoadImages(listing) ==
    /\ phase = "init"
    /\ LET images == loaded(listing, cat_size)
           e == IF "forward" \in Keys(images)
                THEN set_pose("forward", images, Engine, now)
                ELSE IF Len(images) > 0
                     THEN set_pose(images[1].name, images, Engine, now)
                     ELSE Engine
       IN  /\ pose_images' = images
           /\ pixmap' = e.pixmap
           /\ current_pose' = e.current_pose
           /\ last_change_time' = e.last_change_time
    /\ phase' = "running"
    /\ UNCHANGED <<now, cat_size, x_offset, y_offset, geom, dlg, settings_file,
                   testing, tick>>

----------------------------------------------------------------------------
(* The timer tick *)

\* What update_orientation computes from the pointer m and the label geometry
TickLocals(m, rect, images) ==
    LET anchor == get_cat_anchor_point(rect)
        dx == m[1] - anchor[1]
        dy == m[2] - anchor[2]
        d == determine_direction(dx, dy)
    IN  [at |-> "done", mouse |-> m, anchor |-> anchor, dx |-> dx, dy |-> dy,
         desc |-> d, target |-> find_best_pose(d[1], d[2], d[3], d[4], images)]

\* A variant in which a blocked attempt restarts the cooldown.
update_orientation_restamping(target_pose, current_time, e, images, t) ==
    IF target_pose = None THEN e
    ELSE IF target_pose # e.current_pose
         THEN IF current_time - e.last_change_time >= POSE_CHANGE_COOLDOWN_MS
              THEN set_pose(target_pose, images, e, t)
              ELSE [e EXCEPT !.last_change_time = current_time]
         ELSE e

\* The gate and the commit: the engine state a tick leaves, given its resolved target,
\* the clock read at the start of the callback and the clock t read inside set_pose.
update_orientation(target_pose, current_time, e, images, t) ==
    IF target_pose = None THEN e
    ELSE IF target_pose # e.current_pose
            /\ cooldown_elapsed(current_time, e.last_change_time)
         THEN set_pose(target_pose, images, e, t)
         ELSE e

\* One timer callback, pointer at m; drift ms pass before set_pose reads the clock.
Tick(m, drift) ==
    /\ phase \in {"running", "dialog"}
    /\ now + drift <= MaxTime
    /\ LET locals == TickLocals(m, geom, pose_images)
           e == update_orientation(locals.target, now, Engine, pose_images, now + drift)
       IN  /\ tick' = locals
           /\ pixmap' = e.pixmap
           /\ current_pose' = e.current_pose
           /\ last_change_time' = e.last_change_time
           /\ now' = IF e.current_pose # current_pose THEN now + drift ELSE now
    /\ UNCHANGED <<phase, cat_size, x_offset, y_offset, geom, pose_images, dlg,
                   settings_file, testing>>

\* The wall clock advances between callbacks, up to the model's horizon.
ClockAdvance(dt, until) ==
    /\ phase # "stopped"
    /\ now + dt <= until
    /\ now' = now + dt
    /\ UNCHANGED <<phase, cat_size, x_offset, y_offset, geom, pixmap, pose_images,
                   current_pose, last_change_time, dlg, settings_file, testing, tick>>

----------------------------------------------------------------------------
(* Position, size and the adjustment dialog *)

\* The loop of update_cat_position: every key whose file still exists is
\* re-scaled in place; keys and their order stay.
rescale(images, size, existing) ==
    [i \in DOMAIN images |->
        IF images[i].name \in existing THEN Scaled(images[i].name, size) ELSE images[i]]

\* The body of update_cat_position with the new settings; existing = the keys
\* whose file exists.
RescaleAndReapply(size, xo, yo, existing) ==
    /\ cat_size' = size
    /\ x_offset' = xo
    /\ y_offset' = yo
    /\ geom' = Geometry(size, xo, yo)
    /\ pose_images' = rescale(pose_images, size, existing)
    /\ pixmap' = IF Truthy(current_pose) /\ current_pose \in Keys(pose_images')
                 THEN Image(pose_images', current_pose)
                 ELSE pixmap

\* A variant that stamps the change time when it re-applies the pose.
update_cat_position_stamping(size, xo, yo, existing) ==
    /\ RescaleAndReapply(size, xo, yo, existing)
    /\ current_pose' = current_pose
    /\ last_change_time' = now

update_cat_position(size, xo, yo, existing) ==
    /\ RescaleAndReapply(size, xo, yo, existing)
    /\ UNCHANGED <<current_pose, last_change_time>>

\* Tray menu "Adjust Position": the modal dialog opens and keeps the originals.
ShowPositionDialog ==
    /\ phase = "running"
    /\ phase' = "dialog"
    /\ dlg' = [open |-> TRUE, size |-> cat_size, y |-> y_offset, x |-> x_offset]
    /\ UNCHANGED <<now, cat_size, x_offset, y_offset, geom, pixmap, pose_images,
                   current_pose, last_change_time, settings_file, testing, tick>>

\* size_spinbox.valueChanged
UpdateSize(value) ==
    /\ phase = "dialog"
    /\ value # cat_size
    /\ \E existing \in SUBSET Keys(pose_images) :
           update_cat_position(value, x_offset, y_offset, existing)
    /\ UNCHANGED <<phase, now, dlg, settings_file, testing, tick>>

\* y_spinbox.valueChanged
UpdateYOffset(value) ==
    /\ phase = "dialog"
    /\ value # y_offset
    /\ \E existing \in SUBSET Keys(pose_images) :
           update_cat_position(cat_size, x_offset, value, existing)
    /\ UNCHANGED <<phase, now, dlg, settings_file, testing, tick>>

\* x_spinbox.valueChanged
UpdateXOffset(value) ==
    /\ phase = "dialog"
    /\ value # x_offset
    /\ \E existing \in SUBSET Keys(pose_images) :
           update_cat_position(cat_size, value, y_offset, existing)
    /\ UNCHANGED <<phase, now, dlg, settings_file, testing, tick>>

OnOk ==
    /\ phase = "dialog"
    /\ settings_file' = save_settings(cat_size, y_offset, x_offset, testing, settings_file)
    /\ phase' = "running"
    /\ dlg' = NoDialog
    /\ UNCHANGED <<now, cat_size, x_offset, y_offset, geom, pixmap, pose_images,
                   current_pose, last_change_time, testing, tick>>

OnCancel ==
    /\ phase = "dialog"
    /\ \E existing \in SUBSET Keys(pose_images) :
           update_cat_position(dlg.size, dlg.x, dlg.y, existing)
    /\ phase' = "running"
    /\ dlg' = NoDialog
    /\ UNCHANGED <<now, settings_file, testing, tick>>

\* The dialog is closed from its title bar: exec() returns, no handler runs.
CloseDialog ==
    /\ phase = "dialog"
    /\ phase' = "running"
    /\ dlg' = NoDialog
    /\ UNCHANGED <<now, cat_size, x_offset, y_offset, geom, pixmap, pose_images,
                   current_pose, last_change_time, settings_file, testing, tick>>

----------------------------------------------------------------------------
(* Tray actions; the modal dialog takes the input while it is open *)

\* toggle_startup touches the registry and the menu check mark only.
ToggleStartup ==
    /\ phase = "running"
    /\ UNCHANGED vars

quit_application ==
    /\ phase = "running"
    /\ settings_file' = save_settings(cat_size, y_offset, x_offset, testing, settings_file)
    /\ phase' = "stopped"
    /\ UNCHANGED <<now, cat_size, x_offset, y_offset, geom, pixmap, pose_images,
                   current_pose, last_change_time, dlg, testing, tick>>

\* uninstall_application: the timer stops; the batch script deletes the settings file.
uninstall_application ==
    /\ phase = "running"
    /\ settings_file' = NoFile
    /\ phase' = "stopped"
    /\ UNCHANGED <<now, cat_size, x_offset, y_offset, geom, pixmap, pose_images,
                   current_pose, last_change_time, dlg, testing, tick>>

----------------------------------------------------------------------------
(* The program *)

Next ==
    \/ \E listing \in FewListings : LoadImages(listing)
    \/ \E m \in FewMousePoints : Tick(m, 0)
    \/ \E dt \in CoarseSteps : ClockAdvance(dt, StartTime + CoarseHorizon)
    \/ ShowPositionDialog
    \/ \E value \in SizeChoices : UpdateSize(value)
    \/ \E value \in YChoices : UpdateYOffset(value)
    \/ \E value \in XChoices : UpdateXOffset(value)
    \/ OnOk
    \/ OnCancel
    \/ CloseDialog
    \/ ToggleStartup
    \/ quit_application
    \/ uninstall_application

Spec == Init /\ [][Next]_vars

\* The engine alone: startup, ticks and the clock, with fine clock steps
NextEngine ==
    \/ \E listing \in DirListings : LoadImages(listing)
    \/ \E m \in MousePoints, drift \in 0..MaxDrift : Tick(m, drift)
    \/ \E dt \in TimeSteps : ClockAdvance(dt, MaxTime)

SpecEngine == Init /\ [][NextEngine]_vars

----------------------------------------------------------------------------
(* The engine under its periodic timer: the callback fires every
   TIMER_INTERVAL_MS from setup_timer on, the pointer moves until SettleTime
   and rests afterwards. *)

\* The pointer may still move for this long after startup.
SettleAfter == 225

SettleTime == StartTime + SettleAfter

\* Long enough for a held-back change to be committed and seen by one more tick.
ConvergeEnd == SettleTime + POSE_CHANGE_COOLDOWN_MS + 2 * TIMER_INTERVAL_MS

\* When the timer fires next: one interval after the last callback started, or
\* after timer.start() for the first one.
Due == IF tick.at = "done" THEN tick.current_time + TIMER_INTERVAL_MS
       ELSE StartTime + TIMER_INTERVAL_MS

\* The timer callback at its due time; current_time is the local of line 441.
TimedTick(m, drift) ==
    /\ phase = "running"
    /\ now = Due
    /\ now + drift <= ConvergeEnd
    /\ (tick.at = "done" /\ now > SettleTime) => m = tick.mouse
    /\ LET locals == TickLocals(m, geom, pose_images)
           e == update_orientation(locals.target, now, Engine, pose_images, now + drift)
       IN  /\ tick' = [at |-> "done", mouse |-> locals.mouse, anchor |-> locals.anchor,
                       dx |-> locals.dx, dy |-> locals.dy, desc |-> locals.desc,
                       target |-> locals.target, current_time |-> now]
           /\ pixmap' = e.pixmap
           /\ current_pose' = e.current_pose
           /\ last_change_time' = e.last_change_time
           /\ now' = IF e.current_pose # current_pose THEN now + drift ELSE now
    /\ UNCHANGED <<phase, cat_size, x_offset, y_offset, geom, pose_images, dlg,
                   settings_file, testing>>

\* The clock runs on between callbacks, up to the moment the next one is due.
TimedClock(dt) ==
    /\ phase = "running"
    /\ now < Due
    /\ Due <= ConvergeEnd
    /\ now' = IF now + dt < Due THEN now + dt ELSE Due
    /\ UNCHANGED <<phase, cat_size, x_offset, y_offset, geom, pixmap, pose_images,
                   current_pose, last_change_time, dlg, settings_file, testing, tick>>

LoadStepConverge == \E listing \in DirListings : LoadImages(listing)

TimedTickStep == \E m \in MousePoints, drift \in 0..MaxDrift : TimedTick(m, drift)

TimedClockStep == \E dt \in TimeSteps : TimedClock(dt)

NextConverge ==
    \/ LoadStepConverge
    \/ TimedTickStep
    \/ TimedClockStep

\* Startup completes, the timer keeps firing and the clock keeps advancing.
SpecConverge ==
    /\ Init
    /\ [][NextConverge]_vars
    /\ WF_vars(LoadStepConverge)
    /\ WF_vars(TimedTickStep)
    /\ WF_vars(TimedClockStep)

----------------------------------------------------------------------------
(* The classifier and the resolver on their own *)

Descriptors ==
    {"left", "right", "forward"} \X {"slight", "normal", "far"}
        \X {"up", "down", "center"} \X {"slight", "normal"}

Sides == {"left", "right"}
Verticals == {"up", "down"}

\* File names an images directory may hold: every name the resolver can ask
\* for, one it never asks for, and the empty name of a file called ".png"
PoseNames ==
    {"forward", "sit", ""}
    \cup {"forward_" \o v : v \in Verticals}
    \cup {"forward_slight_" \o v : v \in Verticals}
    \cup Sides
    \cup {h \o "_" \o h : h \in Sides}
    \cup {h \o "_center" : h \in Sides}
    \cup {"forward_" \o h : h \in Sides}
    \cup {p[1] \o "_" \o p[2] : p \in Sides \X Verticals}
    \cup {p[1] \o "_slight_" \o p[2] : p \in Sides \X Verticals}
    \cup {"forward_" \o p[1] \o "_" \o p[2] : p \in Sides \X Verticals}
    \cup {"forward_" \o p[1] \o "_slight_" \o p[2] : p \in Sides \X Verticals}

\* Key sequences of at most n distinct names
KeyOrders(n) ==
    UNION {{k \in [1..len -> PoseNames] : \A i, j \in 1..len : k[i] = k[j] => i = j}
           : len \in 0..n}

LibraryOf(keys, size) == [i \in DOMAIN keys |-> Scaled(keys[i], size)]

\* update_orientation stopped before determine_direction, for any displacement
InitClassify ==
    /\ InitFields(NoFile, FALSE)
    /\ \E dx, dy \in (-MaxDelta)..MaxDelta :
           tick = [at |-> "classify", mouse |-> <<dx, dy>>, anchor |-> <<0, 0>>,
                   dx |-> dx, dy |-> dy]

Classify ==
    /\ tick.at = "classify"
    /\ tick' = [at |-> "classified", mouse |-> tick.mouse, anchor |-> tick.anchor,
                dx |-> tick.dx, dy |-> tick.dy,
                desc |-> determine_direction(tick.dx, tick.dy)]
    /\ UNCHANGED <<phase, now, cat_size, x_offset, y_offset, geom, pixmap, pose_images,
                   current_pose, last_change_time, dlg, settings_file, testing>>

SpecClassify == InitClassify /\ [][Classify]_vars

\* update_orientation stopped before find_best_pose, for any descriptor and library
InitResolve ==
    /\ phase = "running"
    /\ now = StartTime
    /\ cat_size = DEFAULT_SIZE
    /\ x_offset = DEFAULT_X_OFFSET
    /\ y_offset = DEFAULT_Y_OFFSET
    /\ geom = Geometry(DEFAULT_SIZE, DEFAULT_X_OFFSET, DEFAULT_Y_OFFSET)
    /\ pixmap = NoPixmap
    /\ current_pose = None
    /\ last_change_time = 0
    /\ dlg = NoDialog
    /\ settings_file = NoFile
    /\ testing = FALSE
    /\ \E keys \in KeyOrders(MaxLib) : pose_images = LibraryOf(keys, DEFAULT_SIZE)
    /\ tick = [at |-> "resolve"]

Resolve(d) ==
    /\ tick.at = "resolve"
    /\ tick' = [at |-> "resolved", desc |-> d,
                target |-> find_best_pose(d[1], d[2], d[3], d[4], pose_images)]
    /\ UNCHANGED <<phase, now, cat_size, x_offset, y_offset, geom, pixmap, pose_images,
                   current_pose, last_change_time, dlg, settings_file, testing>>

NextResolve == \E d \in Descriptors : Resolve(d)

SpecResolve == InitResolve /\ [][NextResolve]_vars

----------------------------------------------------------------------------
(* Properties of the classifier *)

\* The horizontal table with the default thresholds
TableH(dx) ==
    CASE dx < -100 -> <<"left", "far">>
      [] -100 <= dx /\ dx < -60 -> <<"left", "normal">>
      [] -60 <= dx /\ dx < -30 -> <<"left", "slight">>
      [] 30 < dx /\ dx <= 60 -> <<"right", "slight">>
      [] 60 < dx /\ dx <= 100 -> <<"right", "normal">>
      [] dx > 100 -> <<"right", "far">>
      [] -30 <= dx /\ dx <= 30 -> <<"forward", "normal">>

\* The vertical table with the default threshold
TableV(dy) ==
    CASE dy < -80 -> <<"up", "normal">>
      [] -80 <= dy /\ dy < -40 -> <<"up", "slight">>
      [] 40 < dy /\ dy <= 80 -> <<"down", "slight">>
      [] dy > 80 -> <<"down", "normal">>
      [] -40 <= dy /\ dy <= 40 -> <<"center", "normal">>

Classified == tick.at = "classified"

\* C1: with the default thresholds determine_direction yields a descriptor for
\* every displacement, and it is the one the two tables give, each axis on its
\* own; dx = -59 and dx = -31 are (left, slight), dx = -30 is (forward, normal),
\* (-150, -200) is (left, far, up, normal), (70, 50) is (right, normal, down, slight).
C1_ClassifierMatchesTables ==
    Classified =>
        /\ tick.desc \in Descriptors
        /\ <<tick.desc[1], tick.desc[2]>> = TableH(tick.dx)
        /\ <<tick.desc[3], tick.desc[4]>> = TableV(tick.dy)
        /\ tick.dx \in {-59, -31} => <<tick.desc[1], tick.desc[2]>> = <<"left", "slight">>
        /\ tick.dx = -30 => <<tick.desc[1], tick.desc[2]>> = <<"forward", "normal">>
        /\ (tick.dx = -150 /\ tick.dy = -200) => tick.desc = <<"left", "far", "up", "normal">>
        /\ (tick.dx = 70 /\ tick.dy = 50) => tick.desc = <<"right", "normal", "down", "slight">>

C1_Witness ==
    /\ Classified
    /\ tick.dx = -150
    /\ tick.dy = -200
    /\ tick.desc = <<"left", "far", "up", "normal">>

\* C2 as stated: dx = -60 is classified (left, normal), whatever dy is.
C2_MinusSixtyIsNormal ==
    (Classified /\ tick.dx = -60) =>
        <<tick.desc[1], tick.desc[2]>> = <<"left", "normal">>

\* C2 amended: dx = -60 is classified (left, slight), whatever dy is; the weak
\* threshold itself is on the slight side and dx = -61 is the first (left, normal).
C2_MinusSixtyIsSlight ==
    /\ (Classified /\ tick.dx = -60) =>
           <<tick.desc[1], tick.desc[2]>> = <<"left", "slight">>
    /\ (Classified /\ tick.dx = -61) =>
           <<tick.desc[1], tick.desc[2]>> = <<"left", "normal">>

C2_Witness ==
    /\ Classified
    /\ tick.dx = -60
    /\ tick.desc[1] = "left"
    /\ tick.desc[2] = "slight"

----------------------------------------------------------------------------
(* Properties of the resolver *)

\* The two vertical forms of a base name, the one matching the intensity first
VForms(base, v, vi) ==
    IF vi = "slight"
    THEN <<base \o "_slight_" \o v, base \o "_" \o v>>
    ELSE <<base \o "_" \o v, base \o "_slight_" \o v>>

\* The ordered candidate list the rules give for a descriptor
ListedCandidates(d) ==
    LET h == d[1]
        hi == d[2]
        v == d[3]
        vi == d[4]
    IN  IF h = "forward"
        THEN IF v = "center" THEN <<"forward">>
             ELSE VForms("forward", v, vi) \o <<"forward">>
        ELSE CASE hi = "far" ->
                    IF v = "center" THEN <<h \o "_" \o h, h, h \o "_center">>
                    ELSE VForms(h, v, vi) \o <<h \o "_" \o h, h>>
               [] hi = "slight" ->
                    IF v = "center" THEN <<"forward_" \o h, h, h \o "_center", "forward">>
                    ELSE VForms("forward_" \o h, v, vi) \o <<"forward_" \o h>>
                         \o VForms(h, v, vi) \o <<h>>
                         \o VForms("forward", v, vi) \o <<"forward">>
               [] hi = "normal" ->
                    IF v = "center" THEN <<h, h \o "_center">>
                    ELSE VForms(h, v, vi) \o <<h>>

\* The positions of a list whose name is a key
Present(list, keys) == {i \in DOMAIN list : list[i] \in keys}

Resolved == tick.at = "resolved"

\* C3: for every descriptor and every library, find_best_pose returns the first
\* name of the descriptor's listed candidates that is a key of the library; the
\* library {left, forward} with (left, slight, center) gives "left".
C3_FirstListedCandidate ==
    Resolved =>
        LET list == ListedCandidates(tick.desc)
            hits == Present(list, Keys(pose_images))
        IN  /\ hits # {} => tick.target = list[CHOOSE i \in hits : \A j \in hits : i <= j]
            /\ (/\ Keys(pose_images) = {"left", "forward"}
                /\ <<tick.desc[1], tick.desc[2], tick.desc[3]>> = <<"left", "slight", "center">>)
               => tick.target = "left"

C3_Witness ==
    /\ Resolved
    /\ Keys(pose_images) = {"left", "forward"}
    /\ <<tick.desc[1], tick.desc[2], tick.desc[3]>> = <<"left", "slight", "center">>
    /\ tick.target = "left"

\* C4: find_best_pose always answers with a key or, for the empty library only,
\* with None; when no listed candidate is a key it answers "forward" if that is a
\* key, else the first key in insertion order, else None; the library {forward}
\* resolves every descriptor to "forward".
C4_FallbackChain ==
    Resolved =>
        LET keys == Keys(pose_images) IN
        /\ tick.target \in keys \cup {None}
        /\ tick.target = None => pose_images = <<>>
        /\ Present(ListedCandidates(tick.desc), keys) = {} =>
               tick.target = IF "forward" \in keys THEN "forward"
                             ELSE IF Len(pose_images) > 0 THEN pose_images[1].name
                             ELSE None
        /\ keys = {"forward"} => tick.target = "forward"

C4_Witness ==
    /\ Resolved
    /\ Present(ListedCandidates(tick.desc), Keys(pose_images)) = {}
    /\ "forward" \notin Keys(pose_images)
    /\ Len(pose_images) = 2
    /\ tick.target = pose_images[1].name

----------------------------------------------------------------------------
(* Steps of the program, for the properties below *)

TickStep == \E m \in MousePoints, drift \in 0..MaxDrift : Tick(m, drift)

LoadStep == \E listing \in DirListings : LoadImages(listing)

\* The handlers that call update_cat_position
ResizeStep ==
    \/ \E value \in SizeChoices : UpdateSize(value)
    \/ \E value \in YChoices : UpdateYOffset(value)
    \/ \E value \in XChoices : UpdateXOffset(value)
    \/ OnCancel

Ticked == tick.at = "done"

----------------------------------------------------------------------------
(* Properties of the tick *)

\* C5: a tick changes current_pose only if its resolved target differs from
\* current_pose and at least 150 ms have passed since last_change_time, and then
\* to that target; when the target is the current pose or fewer than 150 ms have
\* passed, the tick leaves current_pose, last_change_time and the displayed
\* pixmap as they were.
C5_CooldownGate ==
    [][TickStep =>
        LET target == tick'.target
            elapsed == now - last_change_time
        IN  /\ current_pose' # current_pose =>
                   (target # current_pose /\ elapsed >= 150 /\ current_pose' = target)
            /\ (target = current_pose \/ elapsed < 150) =>
                   UNCHANGED <<current_pose, last_change_time, pixmap>>]_vars

C5_Witness ==
    /\ Ticked
    /\ tick.target # None
    /\ tick.target # current_pose
    /\ current_pose # None
    /\ now - last_change_time < 150
    /\ now - last_change_time > 0

\* C6: after an accepted change at t0 = last_change_time, a tick whose target
\* differs from current_pose leaves current_pose alone when it runs fewer than
\* 150 ms after t0 (at t0 + 100, say), and when it runs 150 ms or more after t0
\* (at t0 + 150, at t0 + 151) it sets current_pose to the target and
\* last_change_time to the clock read as the change is made, within the tick.
C6_CooldownEnforcement ==
    [][(TickStep /\ current_pose # None /\ tick'.target \notin {None, current_pose}) =>
        LET elapsed == now - last_change_time
        IN  /\ elapsed < 150 => current_pose' = current_pose
            /\ elapsed = 100 => UNCHANGED <<current_pose, last_change_time>>
            /\ elapsed >= 150 =>
                   /\ current_pose' = tick'.target
                   /\ last_change_time' = now'
                   /\ now <= now'
                   /\ now' <= now + MaxDrift]_vars

C6_Witness ==
    /\ Ticked
    /\ current_pose # None
    /\ tick.target \notin {None, current_pose}
    /\ now - last_change_time = 100

\* Two consecutive ticks read the same pointer and the same anchor
SameReads == Ticked /\ tick'.mouse = tick.mouse /\ tick'.anchor = tick.anchor

\* C7 as stated: the second of two consecutive ticks with the same pointer and
\* anchor never changes current_pose.
C7_SecondTickNeverChanges ==
    [][(TickStep /\ SameReads) => current_pose' = current_pose]_vars

\* C7 amended: the second of two consecutive ticks with the same pointer and
\* anchor does not change current_pose when the first one left current_pose at
\* its resolved target (or resolved no pose); a change the first tick had to
\* hold back for the cooldown may be made by the second.
C7_SecondTickAfterResolution ==
    [][(TickStep /\ SameReads /\ tick.target \in {current_pose, None}) =>
        current_pose' = current_pose]_vars

C7_Witness ==
    /\ Ticked
    /\ tick.target = current_pose
    /\ last_change_time > StartTime
    /\ now - last_change_time >= 150

\* C8: with an empty library find_best_pose answers None for every descriptor,
\* and a tick then changes nothing but its own locals: current_pose,
\* last_change_time and the pixmap stay, nothing is recorded, and the timer
\* keeps running, so the next tick classifies and resolves afresh.
C8_EmptyLibrary ==
    [][(TickStep /\ pose_images = <<>>) =>
        /\ \A d \in Descriptors : find_best_pose(d[1], d[2], d[3], d[4], pose_images) = None
        /\ tick'.target = None
        /\ tick'.desc \in Descriptors
        /\ UNCHANGED <<phase, now, cat_size, x_offset, y_offset, geom, pixmap, pose_images,
                       current_pose, last_change_time, dlg, settings_file, testing>>]_vars

C8_Witness ==
    /\ Ticked
    /\ pose_images = <<>>
    /\ tick.target = None
    /\ current_pose = None
    /\ pixmap = NoPixmap
    /\ now > StartTime

----------------------------------------------------------------------------
(* Properties of the whole program *)

EngineWritten == current_pose' # current_pose \/ last_change_time' # last_change_time

\* C9 as stated: only the timer tick writes current_pose and last_change_time.
C9_OnlyTickWrites ==
    [][EngineWritten => TickStep]_vars

\* C9 amended: current_pose and last_change_time are written only by the startup
\* image loading, which sets the initial pose, and by the timer tick; current_pose
\* is None and last_change_time is 0 from creation until load_images runs; the
\* position and size handlers, the dialog and the tray actions change neither.
C9_LoadAndTickWrite ==
    [][/\ EngineWritten => (LoadStep \/ TickStep)
       /\ phase = "init" => (current_pose = None /\ last_change_time = 0)]_vars

C9_Witness ==
    /\ phase = "dialog"
    /\ cat_size # dlg.size
    /\ current_pose = "left"
    /\ last_change_time > StartTime

\* C10 as stated: a handler that re-scales leaves the keys of the library and
\* current_pose as they were and puts the library's image of current_pose on the
\* label; from startup on the key set never changes.
C10_ResizeReappliesPose ==
    [][/\ ResizeStep =>
              /\ Keys(pose_images') = Keys(pose_images)
              /\ current_pose' = current_pose
              /\ current_pose # None => pixmap' = Image(pose_images', current_pose)
       /\ phase # "init" => Keys(pose_images') = Keys(pose_images)]_vars

----------------------------------------------------------------------------
(* C11: no flicker *)

PoseChanges == current_pose' # current_pose

\* C11: the clock never goes back; every change of current_pose, by the startup
\* load or by a tick, records the clock of that change in last_change_time, and
\* nothing else moves last_change_time; a change that follows an earlier one is
\* decided at least POSE_CHANGE_COOLDOWN_MS after the earlier one's record, so
\* two successive changes are at least 150 ms apart; and a tick that comes one
\* timer period or less after a change, as the tick right after a changing tick
\* does with the 75 ms period, leaves the pose alone.
C11_NoFlicker ==
    [][/\ now' >= now
       /\ PoseChanges =>
              /\ last_change_time' = now'
              /\ current_pose # None =>
                     now - last_change_time >= POSE_CHANGE_COOLDOWN_MS
       /\ ~PoseChanges => last_change_time' = last_change_time
       /\ (TickStep /\ now - last_change_time <= TIMER_INTERVAL_MS) =>
              ~PoseChanges]_vars

\* Two tick changes in a row: the initial "forward" was left and come back to.
C11_Witness ==
    /\ Ticked
    /\ Keys(pose_images) = {"left", "forward"}
    /\ current_pose = "forward"
    /\ last_change_time >= StartTime + 2 * POSE_CHANGE_COOLDOWN_MS

----------------------------------------------------------------------------
(* C12: the displayed pose and the library *)

\* C12 as stated: in every reachable state current_pose is None or a key of the
\* library; whenever it is not None the label shows the library's image of
\* current_pose; and the target a tick resolved from a non-empty library is a
\* key, so set_pose's membership test never turns down a gated target.
C12_PoseInLibraryAndDisplayed ==
    /\ current_pose = None \/ current_pose \in Keys(pose_images)
    /\ current_pose # None => pixmap = Image(pose_images, current_pose)
    /\ (Ticked /\ Keys(pose_images) # {}) => tick.target \in Keys(pose_images)

----------------------------------------------------------------------------
(* C13: convergence *)

Converged == tick.at = "done" /\ current_pose = tick.target

\* C13: with a non-empty library, the timer firing every TIMER_INTERVAL_MS and
\* the pointer and anchor at rest from SettleTime on, every callback that starts
\* at least the cooldown plus one timer interval after SettleTime finds
\* current_pose equal to the pose resolved for the resting position, and from
\* some moment on current_pose equals that pose for ever: a change held back by
\* the cooldown is committed by a later tick.
C13_Convergence ==
    /\ [](/\ tick.at = "done"
          /\ Keys(pose_images) # {}
          /\ tick.current_time >= SettleTime + POSE_CHANGE_COOLDOWN_MS + TIMER_INTERVAL_MS
          => current_pose = tick.target)
    /\ (Keys(pose_images) # {}) ~> []Converged

\* A change held back while the pointer came to rest was committed afterwards.
C13_Witness ==
    /\ Converged
    /\ last_change_time > SettleTime
    /\ tick.current_time >= SettleTime + POSE_CHANGE_COOLDOWN_MS + TIMER_INTERVAL_MS

----------------------------------------------------------------------------
(* C14: the adjustment dialog *)

\* The dialog goes away in this step, as it does when OK or Cancel is pressed.
Closing == phase = "dialog" /\ phase' = "running"

\* What Cancel must leave: the values stored when the dialog opened, the file as it was.
CancelRestores ==
    /\ cat_size' = dlg.size
    /\ x_offset' = dlg.x
    /\ y_offset' = dlg.y
    /\ geom' = Geometry(dlg.size, dlg.x, dlg.y)
    /\ settings_file' = settings_file
    /\ current_pose' = current_pose

OkKeeps ==
    /\ cat_size' = cat_size
    /\ x_offset' = x_offset
    /\ y_offset' = y_offset
    /\ geom' = geom
    /\ current_pose' = current_pose

Adjusted == [exists |-> TRUE, size |-> cat_size, y_offset |-> y_offset,
             x_offset |-> x_offset]

\* A spin box handler ran: a value changed while the dialog stayed open.
LiveChange ==
    /\ phase = "dialog"
    /\ phase' = "dialog"
    /\ <<cat_size', x_offset', y_offset'>> # <<cat_size, x_offset, y_offset>>

\* A live change is on the window at once and touches neither the file nor the pose.
LiveChangeApplied ==
    /\ geom' = Geometry(cat_size', x_offset', y_offset')
    /\ settings_file' = settings_file
    /\ current_pose' = current_pose

====
